---- MODULE Spec2Model ----
(***************************************************************************)
(* Weather monitor: the alert detector (src/src/alerts.py), the            *)
(* observation normalizer and the daily aggregator                         *)
(* (src/src/data_processing.py).                                           *)
(*                                                                         *)
(* Temperatures are exact decimals held as integers in thousandths of a    *)
(* degree (31.0 is 31000); round(x, 2) yields a multiple of 10.            *)
(* Python values that may be None, a number or something else are records  *)
(* [t, v] with a tag t and an integer payload v.                           *)
(***************************************************************************)
EXTENDS Integers, Sequences, FiniteSets, TLC

VARIABLES
    alert_count,   \* AlertSystem.alert_count: dict city -> consecutive breaches
    alerts,        \* what _trigger_alert emitted so far, in order
    last,          \* the last call made on the AlertSystem and its outcome
    run,           \* history: consecutive breaching readings per city since
                   \* its last non-breaching reading (not reset by an alert)
    calls,         \* number of calls made so far
    raw,           \* normalizer: the raw reading given to process_weather_data
    unit,          \* normalizer: the unit argument
    processed,     \* normalizer: the outcome of process_weather_data
    npc,           \* normalizer: "ready" before the call, "done" after
    conv,          \* the last call of a unit converter and its outcome
    data_points,   \* aggregator: the list given to calculate_daily_summary
    summaries,     \* aggregator: the outcome of calculate_daily_summary
    apc,           \* aggregator: "ready" before the call, "done" after
    weather_table, \* store: the WeatherData rows of each database, in order
    summary_table, \* store: the DailySummary rows of each database, in order
    store_log,     \* store: the last call made on the store and its outcome
    latest,        \* history: the latest summary committed under each key
    stores,        \* number of store calls made so far
    API_KEY,       \* config.API_KEY: "set", or "missing" when the
                   \* environment holds no OPENWEATHERMAP_API_KEY
    phase,         \* driver: "main" before setup() and run(), "loop" between
                   \* two iterations, "tick" inside _process_real_data,
                   \* "summaries" inside _process_daily_summaries, "exit"
                   \* after sys.exit(1)
    clock,         \* driver: the number of iterations started, its time
    all_city_data, \* driver: the (city, data) items still to be processed
    processed_data,\* driver: the records processed in this iteration
    daily_data,    \* WeatherApp.daily_data: city -> records of the day
    cities_todo,   \* driver: the cities still to be summarized
    fetch_errors,  \* number of "Error fetching data" messages printed
    gen_cities,    \* generator: the argument cities
    gen_start,     \* generator: the argument start_date, in minutes
    gen_end,       \* generator: the argument end_date, in minutes
    current_date,  \* generator: current_date, in minutes
    gen_data,      \* generator: data, the list of readings
    gpc,           \* generator: "called", "loop" inside the while, "done"
    workers,       \* threads inside check_alert: each one's position, its
                   \* arguments and the count it has read
    count0         \* history: the city's counter when the threads started

vars == <<alert_count, alerts, last, run, calls, raw, unit, processed, npc,
         conv, data_points, summaries, apc, weather_table, summary_table,
         store_log, latest, stores, API_KEY, phase, clock, all_city_data,
         processed_data, daily_data, cities_todo, fetch_errors, gen_cities,
         gen_start, gen_end, current_date, gen_data, gpc, workers, count0>>
alertVars == <<alert_count, alerts, last, run, calls>>
normVars == <<raw, unit, processed, npc, conv>>
aggVars == <<data_points, summaries, apc>>
storeVars == <<weather_table, summary_table, store_log, latest, stores>>
driverVars == <<API_KEY, phase, clock, all_city_data, processed_data,
               daily_data, cities_todo, fetch_errors>>
genVars == <<gen_cities, gen_start, gen_end, current_date, gen_data, gpc>>
concVars == <<workers, count0>>
laterVars == <<storeVars, driverVars, genVars, concVars>>

-----------------------------------------------------------------------------
(* Python values *)

PyNone == [t |-> "None", v |-> 0]
Num(x) == [t |-> "num", v |-> x]
PyStr == [t |-> "str", v |-> 0]
IsNum(p) == p.t = "num"

-----------------------------------------------------------------------------
(* config/config.py *)

CITIES == {"Delhi", "Mumbai"}
ALERT_THRESHOLD == 30
CONSECUTIVE_ALERTS == 2

\* the threshold in thousandths of a degree
ThresholdMilli == ALERT_THRESHOLD * 1000

-----------------------------------------------------------------------------
(* Bounds *)

MaxCalls == 6

\* temperatures handed to check_alert: below, at, just above and above the
\* threshold, and None (a record whose temp is None reaches check_alert)
AlertTemps == {Num(25000), Num(30000), Num(30010), Num(31000), PyNone}

-----------------------------------------------------------------------------
(* src/src/alerts.py: AlertSystem *)

\* the attributes an AlertSystem instance has
AlertSystemAttrs == {"__init__", "alert_count", "check_alert", "_trigger_alert"}

\* the values check_alert compares against: the module constants it imports
thresholds ==
    [temperature |-> ALERT_THRESHOLD, consecutive_count |-> CONSECUTIVE_ALERTS]

DictGet_One(d, k, default) == IF k \in DOMAIN d THEN d[k] ELSE 1

\* dict.get(key, default)
DictGet(d, k, default) == IF k \in DOMAIN d THEN d[k] ELSE default

DictSet_All(d, k, x) == [c \in DOMAIN d \cup {k} |-> x]

\* d[k] = x
DictSet(d, k, x) == [c \in DOMAIN d \cup {k} |-> IF c = k THEN x ELSE d[c]]

\* temp > ALERT_THRESHOLD
Breaches(temp) == temp.v > ThresholdMilli

ReachesCount_Strict(cnt) == cnt > CONSECUTIVE_ALERTS

\* self.alert_count[city] >= CONSECUTIVE_ALERTS
ReachesCount(cnt) == cnt >= CONSECUTIVE_ALERTS

CountAfterTrigger_Kept(cnt) == cnt

\* alerts.py line 11: the counter after _trigger_alert
CountAfterTrigger(cnt) == 0

CountAfterNormal_Kept(cnt) == cnt

\* alerts.py line 13: the counter after a reading that does not breach
CountAfterNormal(cnt) == 0

\* what check_alert returns: it has no return statement
NoEvent == [kind |-> "None", city |-> "", temperature |-> 0]

CheckAlertReturn(city, temp, fired) == NoEvent

\* a call on the AlertSystem: its arguments, the city's counter before it, what
\* it returned, what it raised and whether it emitted an alert
Call(op, city, temp, name, value, before, ret, raised, fired) ==
    [op |-> op, city |-> city, temp |-> temp, name |-> name, value |-> value,
     before |-> before, ret |-> ret, raised |-> raised, fired |-> fired]

NoCall == Call("none", "", PyNone, "", 0, 0, NoEvent, "none", FALSE)

\* check_alert(city, temp) with a number
check_alert_num(city, temp) ==
    /\ IsNum(temp)
    /\ IF Breaches(temp)
       THEN LET cnt == DictGet(alert_count, city, 0) + 1
                fired == ReachesCount(cnt)
            IN /\ alert_count' =
                      DictSet(alert_count, city,
                              IF fired THEN CountAfterTrigger(cnt) ELSE cnt)
               /\ alerts' = IF fired
                            THEN Append(alerts, [city |-> city, temp |-> temp.v])
                            ELSE alerts
               /\ last' = Call("check_alert", city, temp, "", 0, cnt - 1,
                               CheckAlertReturn(city, temp, fired), "none", fired)
               /\ run' = [run EXCEPT ![city] = @ + 1]
       ELSE /\ alert_count' =
                   DictSet(alert_count, city,
                           CountAfterNormal(DictGet(alert_count, city, 0)))
            /\ alerts' = alerts
            /\ last' = Call("check_alert", city, temp, "", 0,
                            DictGet(alert_count, city, 0),
                            CheckAlertReturn(city, temp, FALSE), "none", FALSE)
            /\ run' = [run EXCEPT ![city] = 0]

\* check_alert(city, None): "None > 30" raises TypeError before any update
check_alert_none(city, temp) ==
    /\ ~IsNum(temp)
    /\ last' = Call("check_alert", city, temp, "", 0,
                    DictGet(alert_count, city, 0), NoEvent, "TypeError", FALSE)
    /\ UNCHANGED <<alert_count, alerts, run>>

check_alert(city, temp) ==
    /\ calls < MaxCalls
    /\ calls' = calls + 1
    /\ \/ check_alert_num(city, temp)
       \/ check_alert_none(city, temp)
    /\ UNCHANGED normVars
    /\ UNCHANGED aggVars
    /\ UNCHANGED laterVars

\* set_threshold(name, value): AlertSystem defines no such method, so the
\* attribute lookup raises AttributeError and nothing is changed
set_threshold(name, value) ==
    /\ calls < MaxCalls
    /\ calls' = calls + 1
    /\ "set_threshold" \notin AlertSystemAttrs
    /\ last' = Call("set_threshold", "", PyNone, name, value, 0, NoEvent,
                    "AttributeError", FALSE)
    /\ UNCHANGED <<alert_count, alerts, run>>
    /\ UNCHANGED normVars
    /\ UNCHANGED aggVars
    /\ UNCHANGED laterVars

-----------------------------------------------------------------------------
(* src/src/data_processing.py: process_weather_data *)

\* round(x, 2) of the decimal n/d thousandths (d > 0): the nearest multiple
\* of 10. The argument is a binary float: a decimal exactly half way between
\* two multiples is stored slightly below or above it, so either neighbour
\* can come out.
Round2(n, d) ==
    LET lo == (n \div (10 * d)) * 10
        twice == 2 * (n - lo * d)
    IN IF twice < 10 * d THEN {lo}
       ELSE IF twice > 10 * d THEN {lo + 10}
       ELSE {lo, lo + 10}

\* an intermediate value: None, a number n/d, or an exception raised
NoneVal == [t |-> "None", n |-> 0, d |-> 1, exc |-> ""]
Frac(n, d) == [t |-> "num", n |-> n, d |-> d, exc |-> ""]
RaiseVal(exc) == [t |-> "raise", n |-> 0, d |-> 1, exc |-> exc]

ConvertOpt_Unguarded(p, u) ==
    IF u = "fahrenheit"
    THEN IF IsNum(p) THEN Frac(9 * p.v + 160000, 5) ELSE RaiseVal("TypeError")
    ELSE IF p.t = "None" THEN NoneVal
         ELSE IF p.t = "str" THEN Frac(0, 0)
         ELSE Frac(p.v, 1)

\* lines 25-27: x = (x * 9 / 5) + 32 if x is not None else None, under
\* unit == 'fahrenheit'; any other unit leaves x as it is (a non-numeric x
\* is kept, marked by d = 0, and fails in round)
ConvertOpt(p, u) ==
    IF p.t = "None" THEN NoneVal
    ELSE IF p.t = "str"
         THEN IF u = "fahrenheit" THEN RaiseVal("TypeError") ELSE Frac(0, 0)
         ELSE IF u = "fahrenheit" THEN Frac(9 * p.v + 160000, 5)
              ELSE Frac(p.v, 1)

\* lines 33-34: round(x, 2) if x is not None else None; the possible results
RoundOpt(x) ==
    IF x.t = "None" THEN {PyNone}
    ELSE IF x.d = 0 THEN {PyStr}
    ELSE {Num(r) : r \in Round2(x.n, x.d)}

\* an outcome of process_weather_data: a record, None, or an exception; exc
\* names the exception raised, or caught and printed
Outcome(kind, city, main, description, temp, feels_like, dt, exc) ==
    [kind |-> kind, city |-> city, main |-> main, description |-> description,
     temp |-> temp, feels_like |-> feels_like, dt |-> dt, exc |-> exc]

ReturnNone == Outcome("None", "", "", "", PyNone, PyNone, PyNone, "")
Raised(exc) == Outcome("raise", "", "", "", PyNone, PyNone, PyNone, exc)
NotCalled == Outcome("notcalled", "", "", "", PyNone, PyNone, PyNone, "")

\* line 18: not data or 'main' not in data or 'weather' not in data or
\* 'name' not in data
MissingBlock(data) ==
    \/ data.isNone
    \/ data.keys = {}
    \/ "main" \notin data.keys
    \/ "weather" \notin data.keys
    \/ "name" \notin data.keys

\* line 39: not all(key in processed_data for key in ['city', 'temp', 'dt']);
\* the dict literal of lines 29-36 always holds the three keys
RequiredKeyMissing(rec) == ~({"city", "temp", "dt"} \subseteq DOMAIN rec)

\* lines 18-42, the body of the try block: the outcomes it can have
ProcessBody(data, u, now) ==
    IF MissingBlock(data) THEN {ReturnNone}
    ELSE IF ~data.main.mapping THEN {Raised("AttributeError")}
    ELSE
      LET temp == ConvertOpt(data.main.temp, u)
          feels_like == ConvertOpt(data.main.feels_like, u)
      IN IF temp.t = "raise" THEN {Raised(temp.exc)}
         ELSE IF feels_like.t = "raise" THEN {Raised(feels_like.exc)}
         ELSE IF data.weather.kind = "None" THEN {Raised("TypeError")}
         ELSE IF data.weather.kind = "empty" THEN {Raised("IndexError")}
         ELSE IF temp.d = 0 \/ feels_like.d = 0 THEN {Raised("TypeError")}
         ELSE IF "dt" \in data.keys /\ ~IsNum(data.dt) THEN {Raised("TypeError")}
         ELSE
           LET recs ==
                 { Outcome("record", data.name, data.weather.main,
                           data.weather.description, t, f,
                           IF "dt" \in data.keys THEN data.dt ELSE Num(now), "")
                   : t \in RoundOpt(temp), f \in RoundOpt(feels_like) }
           IN { IF RequiredKeyMissing(r) THEN ReturnNone ELSE r : r \in recs }

Handler_Reraise(o) == o

\* lines 44-46: except Exception as e: print(...); return None
Handler(o) == IF o.kind = "raise" THEN [ReturnNone EXCEPT !.exc = o.exc] ELSE o

\* process_weather_data(data, unit), evaluated when the clock reads now
process_weather_data(data, u, now) ==
    { Handler(o) : o \in ProcessBody(data, u, now) }

\* the names the module src.data_processing defines or imports
DataProcessingNames ==
    {"datetime", "Dict", "Any", "List", "Optional", "Counter",
     "process_weather_data", "calculate_daily_summary"}

\* the converters tests/test_data_processing.py imports from the module
ConverterNames == {"kelvin_to_celsius", "kelvin_to_fahrenheit"}

-----------------------------------------------------------------------------
(* Raw readings given to the normalizer *)

RawKeys == {"name", "main", "weather", "dt"}
RawTemps == {PyNone, PyStr, Num(300150), Num(27125), Num(31004)}
RawFeels == {PyNone, PyStr, Num(305150), Num(29996)}
RawTimes == {PyNone, Num(1)}
NowTimes == {5, 6}
Units == {"celsius", "fahrenheit"}
KelvinInputs == {300150, 273150, 0}

NoMain == [mapping |-> FALSE, temp |-> PyNone, feels_like |-> PyNone]
MainVals ==
    {NoMain} \cup
    [mapping : {TRUE}, temp : RawTemps, feels_like : RawFeels]

NoWeather == [kind |-> "None", main |-> "None", description |-> "None"]
WeatherVals ==
    { NoWeather,
      [kind |-> "empty", main |-> "None", description |-> "None"],
      [kind |-> "list", main |-> "Clear", description |-> "clear sky"],
      [kind |-> "list", main |-> "Rain", description |-> "light rain"],
      [kind |-> "list", main |-> "None", description |-> "None"] }

RawNone ==
    [isNone |-> TRUE, keys |-> {}, name |-> "", main |-> NoMain,
     weather |-> NoWeather, dt |-> PyNone]

\* the raw readings: None, and the dicts over the four keys; the value of an
\* absent key is fixed
RawReadings ==
    {RawNone} \cup
    { r \in [isNone : {FALSE}, keys : SUBSET RawKeys, name : {"", "Delhi"},
             main : MainVals, weather : WeatherVals, dt : RawTimes] :
        /\ ("name" \in r.keys) = (r.name = "Delhi")
        /\ "main" \notin r.keys => r.main = NoMain
        /\ "weather" \notin r.keys => r.weather = NoWeather
        /\ "dt" \notin r.keys => r.dt = PyNone }

NoConv == [name |-> "", k |-> 0, result |-> PyNone, raised |-> "none"]

\* the driver hands a raw reading to process_weather_data
Normalize ==
    /\ npc = "ready"
    /\ \E now \in NowTimes :
           \E o \in process_weather_data(raw, unit, now) : processed' = o
    /\ npc' = "done"
    /\ UNCHANGED <<raw, unit, conv>>
    /\ UNCHANGED alertVars
    /\ UNCHANGED aggVars
    /\ UNCHANGED laterVars

\* from src.data_processing import <name>; <name>(k): the module defines no
\* such name, so the import raises ImportError and nothing is computed
CallConverter(name, k) ==
    /\ conv = NoConv
    /\ name \notin DataProcessingNames
    /\ conv' = [name |-> name, k |-> k, result |-> PyNone,
                raised |-> "ImportError"]
    /\ UNCHANGED <<raw, unit, processed, npc>>
    /\ UNCHANGED alertVars
    /\ UNCHANGED aggVars
    /\ UNCHANGED laterVars

-----------------------------------------------------------------------------
(* src/src/data_processing.py: calculate_daily_summary *)

RECURSIVE SumSeq(_)
\* sum(temps)
SumSeq(q) == IF q = << >> THEN 0 ELSE Head(q) + SumSeq(Tail(q))

RECURSIVE MaxSeq(_)
\* max(temps), of a non-empty list
MaxSeq(q) ==
    IF Len(q) = 1 THEN Head(q)
    ELSE LET m == MaxSeq(Tail(q)) IN IF Head(q) >= m THEN Head(q) ELSE m

RECURSIVE MinSeq(_)
\* min(temps), of a non-empty list
MinSeq(q) ==
    IF Len(q) = 1 THEN Head(q)
    ELSE LET m == MinSeq(Tail(q)) IN IF Head(q) <= m THEN Head(q) ELSE m

\* lines 66-68: the (date, city) key of a point
KeyOf(point) == <<point.date, point.city>>

RECURSIVE KeysInOrder(_, _)
\* lines 64-72: the keys of daily_data in insertion order (seen: those
\* already inserted)
KeysInOrder(pts, seen) ==
    IF pts = << >> THEN << >>
    ELSE IF KeyOf(Head(pts)) \in seen THEN KeysInOrder(Tail(pts), seen)
         ELSE <<KeyOf(Head(pts))>>
                  \o KeysInOrder(Tail(pts), seen \cup {KeyOf(Head(pts))})

GroupOf_All(pts, key) == pts

\* daily_data[key]: the points of the key, in input order
GroupOf(pts, key) == SelectSeq(pts, LAMBDA p : KeyOf(p) = key)

RECURSIVE TempsOf(_)
\* line 76: [point.temp for point in points if point.temp is not None]
TempsOf(points) ==
    IF points = << >> THEN << >>
    ELSE IF Head(points).temp = PyNone THEN TempsOf(Tail(points))
         ELSE <<Head(points).temp.v>> \o TempsOf(Tail(points))

\* line 77: [point.main for point in points if point.main is not None]
ConditionsOf(points) ==
    LET keep == SelectSeq(points, LAMBDA p : p.main # "None")
    IN [i \in 1..Len(keep) |-> keep[i].main]

\* Counter(conditions)[c]
CountOf(conditions, c) ==
    Cardinality({i \in 1..Len(conditions) : conditions[i] = c})

MostCommon_LastTie(conditions) ==
    LET best == CHOOSE n \in 1..Len(conditions) :
                    /\ \E i \in 1..Len(conditions) :
                           CountOf(conditions, conditions[i]) = n
                    /\ \A i \in 1..Len(conditions) :
                           CountOf(conditions, conditions[i]) <= n
        lastone == CHOOSE i \in 1..Len(conditions) :
                    /\ CountOf(conditions, conditions[i]) = best
                    /\ \A j \in (i + 1)..Len(conditions) :
                           CountOf(conditions, conditions[j]) < best
    IN <<conditions[lastone], best>>

\* lines 83-84: Counter(conditions).most_common(1)[0]: the highest count,
\* and of the conditions that have it the one first inserted
MostCommon(conditions) ==
    LET best == CHOOSE n \in 1..Len(conditions) :
                    /\ \E i \in 1..Len(conditions) :
                           CountOf(conditions, conditions[i]) = n
                    /\ \A i \in 1..Len(conditions) :
                           CountOf(conditions, conditions[i]) <= n
        first == CHOOSE i \in 1..Len(conditions) :
                    /\ CountOf(conditions, conditions[i]) = best
                    /\ \A j \in 1..(i - 1) :
                           CountOf(conditions, conditions[j]) < best
    IN <<conditions[first], best>>

TotalObservations_NonNull(points) == Len(TempsOf(points))

\* line 94: 'total_observations': len(points)
TotalObservations(points) == Len(points)

AvgTemp_Truncated(temps) == {(SumSeq(temps) \div (10 * Len(temps))) * 10}

\* line 89: round(sum(temps) / len(temps), 2)
AvgTemp(temps) == Round2(SumSeq(temps), Len(temps))

\* lines 86-96: the summaries a usable group can give
GroupSummaries(key, points) ==
    LET temps == TempsOf(points)
        dominant_condition == MostCommon(ConditionsOf(points))
    IN { [date |-> key[1], city |-> key[2],
          avg_temp |-> a, max_temp |-> mx, min_temp |-> mn,
          dominant_condition |-> dominant_condition[1],
          dominant_condition_count |-> dominant_condition[2],
          total_observations |-> TotalObservations(points)]
         : a \in AvgTemp(temps),
           mx \in Round2(MaxSeq(temps), 1),
           mn \in Round2(MinSeq(temps), 1) }

\* line 79: not temps or not conditions
Unusable(points) == TempsOf(points) = << >> \/ ConditionsOf(points) = << >>

RECURSIVE SummariesOf(_, _)
\* lines 74-96: the summaries list, one group after the other
SummariesOf(pts, keys) ==
    IF keys = << >> THEN {<< >>}
    ELSE LET points == GroupOf(pts, Head(keys))
             rest == SummariesOf(pts, Tail(keys))
         IN IF Unusable(points) THEN rest
            ELSE { <<sm>> \o r : sm \in GroupSummaries(Head(keys), points),
                                 r \in rest }

\* an outcome of calculate_daily_summary: a list of summaries, None, or an
\* exception; exc names the exception raised, or caught and printed
AggOutcome(kind, lst, exc) ==
    [kind |-> kind, summaries |-> lst, exc |-> exc]

\* lines 60-98, the body of the try block: point.dt of a dict raises
\* AttributeError in the grouping loop
SummaryBody(pts) ==
    IF pts = << >> THEN {AggOutcome("None", << >>, "")}
    ELSE IF \E i \in 1..Len(pts) : pts[i].kind = "dict"
         THEN {AggOutcome("raise", << >>, "AttributeError")}
         ELSE { IF sms = << >> THEN AggOutcome("None", << >>, "")
                ELSE AggOutcome("list", sms, "")
                : sms \in SummariesOf(pts, KeysInOrder(pts, {})) }

SummaryHandler_Reraise(o) == o

\* lines 100-102: except Exception as e: print(...); return None
SummaryHandler(o) ==
    IF o.kind = "raise" THEN AggOutcome("None", << >>, o.exc) ELSE o

\* calculate_daily_summary(data_points)
calculate_daily_summary(pts) == { SummaryHandler(o) : o \in SummaryBody(pts) }

-----------------------------------------------------------------------------
(* Data points given to the aggregator *)

MaxPoints == 3

\* WeatherData rows as the store returns them: temperatures rounded to 2
\* decimals or None, a condition or None; and the dict the tests pass in
DataPoints ==
    [kind : {"row"}, city : {"Delhi"}, date : {1},
     temp : {PyNone, Num(25000), Num(27000), Num(27010)},
     main : {"None", "Clear", "Rain"}]
    \cup [kind : {"row"}, city : {"Delhi"}, date : {2},
          temp : {PyNone, Num(25000)}, main : {"None", "Clear"}]
    \cup [kind : {"row"}, city : {"Mumbai"}, date : {1},
          temp : {PyNone, Num(27000)}, main : {"None", "Rain"}]
    \cup [kind : {"dict"}, city : {"Delhi"}, date : {1},
          temp : {Num(25000)}, main : {"Clear"}]

\* the lists of at most max data points
PointLists(max) == UNION { [1..n -> DataPoints] : n \in 0..max }

AggNotCalled == AggOutcome("notcalled", << >>, "")

\* the driver hands the data points to calculate_daily_summary
Summarize ==
    /\ apc = "ready"
    /\ \E o \in calculate_daily_summary(data_points) : summaries' = o
    /\ apc' = "done"
    /\ UNCHANGED data_points
    /\ UNCHANGED alertVars
    /\ UNCHANGED normVars
    /\ UNCHANGED laterVars

-----------------------------------------------------------------------------
(* src/src/database/db_operations.py and models.py: the store *)

\* main.py lines 26-29: each DatabaseManager has its own database file and
\* gives its tag to the rows it writes
DataSources == {"mock", "real"}

MaxStores == 2
MaxBatch == 2

\* models.py lines 6-15: the WeatherData row made from a processed record
\* (line 16 of db_operations.py adds the tag); the id is the row's position
WeatherData(data, src) ==
    [city |-> data.city, main |-> data.main, description |-> data.description,
     temp |-> data.temp, feels_like |-> data.feels_like, dt |-> data.dt,
     data_source |-> src]

\* models.py lines 17-28: the DailySummary row made from a summary (line 34
\* of db_operations.py adds the tag); the id is the row's position
DailySummary(summary, src) ==
    [date |-> summary.date, city |-> summary.city,
     avg_temp |-> summary.avg_temp, max_temp |-> summary.max_temp,
     min_temp |-> summary.min_temp,
     dominant_condition |-> summary.dominant_condition,
     dominant_condition_count |-> summary.dominant_condition_count,
     total_observations |-> summary.total_observations,
     data_source |-> src]

SameKey_CityOnly(row, summary, src) ==
    row.city = summary.city /\ row.data_source = src

\* lines 35-39: the filter of the query
SameKey(row, summary, src) ==
    /\ row.date = summary.date
    /\ row.city = summary.city
    /\ row.data_source = src

ExistingSummary_First(rows, summary, src) ==
    IF rows # << >> THEN 1 ELSE 0

\* lines 35-39: .first(), the position of the first row the query finds in
\* the session (rows added earlier in the same batch are flushed before the
\* query runs), 0 when it finds none
ExistingSummary(rows, summary, src) ==
    IF \E i \in 1..Len(rows) : SameKey(rows[i], summary, src)
    THEN CHOOSE i \in 1..Len(rows) :
             /\ SameKey(rows[i], summary, src)
             /\ \A j \in 1..(i - 1) : ~SameKey(rows[j], summary, src)
    ELSE 0

Upsert_AlwaysAdd(rows, summary, src) ==
    Append(rows, DailySummary(summary, src))

\* lines 41-46: setattr of every key on the existing row, or session.add of
\* a new row
Upsert(rows, summary, src) ==
    LET existing_summary == ExistingSummary(rows, summary, src)
    IN IF existing_summary # 0
       THEN [rows EXCEPT ![existing_summary] = DailySummary(summary, src)]
       ELSE Append(rows, DailySummary(summary, src))

RECURSIVE SessionAfter(_, _, _)
\* lines 33-46: the loop over the batch, one summary after the other
SessionAfter(rows, batch, src) ==
    IF batch = << >> THEN rows
    ELSE SessionAfter(Upsert(rows, Head(batch), src), Tail(batch), src)

\* history: the key a summary is written under
StoreKey(summary, src) == <<summary.date, summary.city, src>>

RECURSIVE LatestAfter(_, _, _)
\* history: the latest summary written under each key once the batch of a
\* committed call is written
LatestAfter(l, batch, src) ==
    IF batch = << >> THEN l
    ELSE LatestAfter([l EXCEPT ![StoreKey(Head(batch), src)] =
                          DailySummary(Head(batch), src)],
                     Tail(batch), src)

\* a call of the store as its caller sees it: ret is what it returned and
\* raised the exception that reached the caller; failed tells that the try
\* block raised, printed that the except clause printed the error; repeat
\* tells that the call before was the same call and committed
StoreCall(op, src, batch, failed, printed, ret, raised, repeat) ==
    [op |-> op, source |-> src, batch |-> batch, failed |-> failed,
     printed |-> printed, ret |-> ret, raised |-> raised, repeat |-> repeat]

NoStoreCall == StoreCall("none", "", << >>, FALSE, FALSE, "None", "none", FALSE)

StoreResult_Reraise(op, src, batch, failed, repeat) ==
    StoreCall(op, src, batch, failed, failed, "None",
              IF failed THEN "Exception" ELSE "none", repeat)

\* lines 20-24 and 49-53: except Exception: print, rollback; finally close.
\* The method ends without a return statement whether the try block raised
\* or not
StoreResult(op, src, batch, failed, repeat) ==
    StoreCall(op, src, batch, failed, failed, "None", "none", repeat)

\* the call repeats the one before, which committed
Repeats(op, src, batch) ==
    /\ store_log.op = op
    /\ store_log.source = src
    /\ store_log.batch = batch
    /\ ~store_log.failed
    /\ batch # << >>

\* lines 9-24: store_weather_data(data) of the DatabaseOperations whose
\* manager has the database db and the tag src; fails tells that the try
\* block raises (the database is locked or gone)
store_weather_data_at(db, src, data, fails) ==
    /\ IF data.kind # "record"
       THEN /\ ~fails
            /\ UNCHANGED weather_table
       ELSE IF fails
            THEN UNCHANGED weather_table
            ELSE weather_table' =
                     [weather_table EXCEPT
                          ![db] = Append(@, WeatherData(data, src))]
    /\ store_log' = StoreResult("store_weather_data", src,
                                IF data.kind = "record" THEN <<data>>
                                ELSE << >>,
                                fails, FALSE)
    /\ UNCHANGED <<summary_table, latest>>

\* lines 26-53: store_daily_summaries(summaries) of the DatabaseOperations
\* whose manager has the database db and the tag src; a rollback leaves the
\* table as it was before the call
store_daily_summaries_at(db, src, batch, fails) ==
    /\ IF batch = << >>
       THEN /\ ~fails
            /\ UNCHANGED <<summary_table, latest>>
       ELSE IF fails
            THEN UNCHANGED <<summary_table, latest>>
            ELSE /\ summary_table' =
                        [summary_table EXCEPT
                             ![db] = SessionAfter(@, batch, src)]
                 /\ latest' = LatestAfter(latest, batch, src)
    /\ store_log' = StoreResult("store_daily_summaries", src, batch, fails,
                                Repeats("store_daily_summaries", src, batch))
    /\ UNCHANGED weather_table

\* config.py lines 7-8 and main.py lines 26-29: the application gives the
\* manager of each tag a database file of its own, named here by the tag
DatabaseOf(src) == src

\* store_weather_data as the application's DatabaseOperations of src runs it
store_weather_data(src, data, fails) ==
    store_weather_data_at(DatabaseOf(src), src, data, fails)

\* store_daily_summaries as the application's DatabaseOperations of src runs
\* it
store_daily_summaries(src, batch, fails) ==
    store_daily_summaries_at(DatabaseOf(src), src, batch, fails)

\* the summaries handed to the store
StoreSummaries ==
    { sm \in [date : {1, 2}, city : {"Delhi"}, avg_temp : {25000, 26000},
              max_temp : {27000}, min_temp : {24000},
              dominant_condition : {"Clear"},
              dominant_condition_count : {1}, total_observations : {2}] :
        sm.date = 2 => sm.avg_temp = 25000 }

\* the batches of at most max summaries
Batches(max) == UNION { [1..n -> StoreSummaries] : n \in 0..max }

\* the processed records handed to the store, and None
StoreRecords ==
    { Outcome("record", "Delhi", "Clear", "clear sky", Num(t), Num(t),
              Num(1), "") : t \in {25000, 31000} }
    \cup {ReturnNone}

StoreKeys == {1, 2} \X CITIES \X DataSources

NoRow == [date |-> 0]

StoreIdle ==
    /\ weather_table = [s \in DataSources |-> << >>]
    /\ summary_table = [s \in DataSources |-> << >>]
    /\ store_log = NoStoreCall
    /\ latest = [k \in StoreKeys |-> NoRow]
    /\ stores = 0

\* a caller stores one processed record
StoreObservation ==
    /\ stores < MaxStores
    /\ stores' = stores + 1
    /\ \E src \in DataSources, data \in StoreRecords, fails \in BOOLEAN :
           store_weather_data(src, data, fails)
    /\ UNCHANGED <<alertVars, normVars, aggVars, driverVars, genVars, concVars>>

\* a caller stores one batch of summaries
StoreSummaryBatch ==
    /\ stores < MaxStores
    /\ stores' = stores + 1
    /\ \E src \in DataSources, batch \in Batches(MaxBatch), fails \in BOOLEAN :
           store_daily_summaries(src, batch, fails)
    /\ UNCHANGED <<alertVars, normVars, aggVars, driverVars, genVars, concVars>>

-----------------------------------------------------------------------------
(* src/main.py and src/src/data_retrieval.py: the real-time driver *)

MaxTicks == 2

\* config.py line 15: CITIES in the order of the list
CityList == <<"Delhi", "Mumbai">>

\* config.py line 17
TEMPERATURE_UNIT == "celsius"

\* a reading of the feed: the dict response.json() returns for a city
FeedReading(city, keys, main, weather, t) ==
    [isNone |-> FALSE, keys |-> keys, name |-> city, main |-> main,
     weather |-> weather, dt |-> Num(t)]

ClearSky == [kind |-> "list", main |-> "Clear", description |-> "clear sky"]

\* what the feed can answer for a city at time t: a breaching reading, a
\* reading without the condition list, a reading whose main block holds no
\* temperature
FeedAnswers(city, t) ==
    { FeedReading(city, RawKeys,
                  [mapping |-> TRUE, temp |-> Num(31000),
                   feels_like |-> Num(33000)], ClearSky, t),
      FeedReading(city, RawKeys \ {"weather"},
                  [mapping |-> TRUE, temp |-> Num(31000),
                   feels_like |-> Num(33000)], NoWeather, t),
      FeedReading(city, RawKeys,
                  [mapping |-> TRUE, temp |-> PyNone, feels_like |-> PyNone],
                  ClearSky, t) }

\* data_retrieval.py lines 6-28: get_weather_data(city). Without an API key
\* the feed refuses the request, raise_for_status raises an HTTPError (a
\* RequestException), the error is printed and None returned; with a key
\* the request may fail the same way or give a reading
get_weather_data(key, city, t) ==
    IF key = "missing" THEN {RawNone}
    ELSE {RawNone} \cup FeedAnswers(city, t)

RECURSIVE fetch_all_cities(_, _, _)
\* data_retrieval.py lines 31-38: fetch_all_cities(), as the list of the
\* items of the dict it returns, one per city of the list
fetch_all_cities(key, cities, t) ==
    IF cities = << >> THEN {<< >>}
    ELSE { <<<<Head(cities), d>>>> \o rest :
             d \in get_weather_data(key, Head(cities), t),
             rest \in fetch_all_cities(key, Tail(cities), t) }

\* the number of cities whose fetch printed "Error fetching data"
FetchErrors(items) ==
    Cardinality({ i \in 1..Len(items) : items[i][2].isNone })

\* main.py line 76: if data
Truthy(data) == ~data.isNone /\ data.keys # {}

\* datetimes are counted in half seconds: n minutes
Minutes(n) == n * 120

\* config.py line 16, in seconds
UPDATE_INTERVAL == 10

\* main.py lines 129 and 146: datetime.now() in the k-th iteration of the
\* loop, which sleeps UPDATE_INTERVAL seconds between two iterations
NowAt(k) == k * UPDATE_INTERVAL * 2

\* data_processing.py line 65: point.dt.date(), days counted from 1
DateOf(t) == (t \div Minutes(1440)) + 1

\* db_operations.py line 16: data['data_source'] = ..., the dict the caller
\* passed holds the new key after the call
AfterStore(data, src) ==
    [k \in DOMAIN data \cup {"data_source"} |->
        IF k = "data_source" THEN src ELSE data[k]]

RECURSIVE SelectRows(_, _, _, _, _)
\* db_operations.py lines 55-65: get_weather_data(city, start_date,
\* end_date) of the DatabaseOperations of src, over the rows of its database
SelectRows(rows, city, start_date, end_date, src) ==
    IF rows = << >> THEN << >>
    ELSE LET row == Head(rows)
             rest == SelectRows(Tail(rows), city, start_date, end_date, src)
         IN IF /\ row.city = city
               /\ IsNum(row.dt)
               /\ start_date <= row.dt.v
               /\ row.dt.v <= end_date
               /\ row.data_source = src
            THEN <<row>> \o rest
            ELSE rest

\* the rows of a query as calculate_daily_summary reads them: point.dt.date(),
\* point.temp, point.main
PointsOf(rows) ==
    [i \in 1..Len(rows) |->
        [kind |-> "row", city |-> rows[i].city, date |-> DateOf(rows[i].dt.v),
         temp |-> rows[i].temp, main |-> rows[i].main]]

DriverIdle ==
    /\ API_KEY = "set"
    /\ phase = "idle"
    /\ clock = 0
    /\ all_city_data = << >>
    /\ processed_data = << >>
    /\ daily_data = [c \in CITIES |-> << >>]
    /\ cities_todo = << >>
    /\ fetch_errors = 0

\* main.py lines 207-217 and 88-100: WeatherApp(use_mock=False), setup(),
\* run() and the entry of _run_real_time_data; validate_api_key is called
\* nowhere and nothing reads API_KEY before the first fetch
Startup ==
    /\ phase = "main"
    /\ phase' = "loop"
    /\ UNCHANGED <<API_KEY, clock, all_city_data, processed_data, daily_data,
                   cities_todo, fetch_errors>>
    /\ UNCHANGED <<alertVars, normVars, aggVars, storeVars, genVars, concVars>>

\* main.py lines 128-133 and 70-74: a new iteration of the loop fetches the
\* readings of all cities
Fetch ==
    /\ phase = "loop"
    /\ clock < MaxTicks
    /\ clock' = clock + 1
    /\ \E items \in fetch_all_cities(API_KEY, CityList, NowAt(clock + 1)) :
           /\ all_city_data' = items
           /\ fetch_errors' = fetch_errors + FetchErrors(items)
    /\ processed_data' = << >>
    /\ phase' = "tick"
    /\ UNCHANGED <<API_KEY, daily_data, cities_todo>>
    /\ UNCHANGED <<alertVars, normVars, aggVars, storeVars, genVars, concVars>>

\* main.py lines 75-76 and 78: the city's data is None, or the normalizer
\* returned None; the loop goes to the next city
SkipCity ==
    /\ all_city_data' = Tail(all_city_data)
    /\ UNCHANGED <<phase, processed_data, daily_data>>
    /\ UNCHANGED <<alertVars, storeVars>>

\* main.py lines 79-82 (and 61-65): the record is stored, appended and
\* handed to check_alert; the dict appended is the one store_weather_data
\* was given. A TypeError of check_alert leaves the loop and run() (lines
\* 101-105) prints it and exits
KeepCity(src, city, rec) ==
    /\ \E fails \in BOOLEAN : store_weather_data(src, rec, fails)
    /\ stores' = stores + 1
    /\ processed_data' = Append(processed_data, AfterStore(rec, src))
    /\ daily_data' = [daily_data EXCEPT
                          ![city] = Append(@, AfterStore(rec, src))]
    /\ calls' = calls + 1
    /\ \/ /\ check_alert_num(city, rec.temp)
          /\ all_city_data' = Tail(all_city_data)
          /\ phase' = phase
       \/ /\ check_alert_none(city, rec.temp)
          /\ all_city_data' = all_city_data
          /\ phase' = "exit"

\* main.py lines 75-82: one iteration of the loop over all_city_data.items()
ProcessCity ==
    /\ phase = "tick"
    /\ all_city_data # << >>
    /\ LET city == Head(all_city_data)[1]
           data == Head(all_city_data)[2]
       IN IF ~Truthy(data) THEN SkipCity
          ELSE \E rec \in process_weather_data(data, TEMPERATURE_UNIT,
                                               NowAt(clock)) :
                   IF rec.kind = "record" THEN KeepCity("real", city, rec)
                   ELSE SkipCity
    /\ UNCHANGED <<API_KEY, clock, cities_todo, fetch_errors>>
    /\ UNCHANGED <<normVars, aggVars, genVars, concVars>>

\* main.py lines 84-85 and 135-146: the tick is processed; when the clock
\* reads 00:00 to 00:04 the daily summaries are computed, otherwise the loop
\* sleeps (the visualizations only read the store)
EndTick ==
    /\ phase = "tick"
    /\ all_city_data = << >>
    /\ \E midnight \in BOOLEAN :
           IF midnight
           THEN phase' = "summaries" /\ cities_todo' = CityList
           ELSE phase' = "loop" /\ cities_todo' = cities_todo
    /\ UNCHANGED <<API_KEY, clock, all_city_data, processed_data, daily_data,
                   fetch_errors>>
    /\ UNCHANGED <<alertVars, normVars, aggVars, storeVars, genVars, concVars>>

\* main.py lines 165-174: the rows of the city in the window are read,
\* summarized and the summaries stored; no row, or no summary, stores nothing
CitySummaries(src, city, start_date, end_date) ==
    LET city_data == SelectRows(weather_table[src], city, start_date,
                                end_date, src)
    IN IF city_data = << >> THEN UNCHANGED storeVars
       ELSE \E o \in calculate_daily_summary(PointsOf(city_data)) :
                IF o.kind = "list"
                THEN /\ \E fails \in BOOLEAN :
                            store_daily_summaries(src, o.summaries, fails)
                     /\ stores' = stores + 1
                ELSE UNCHANGED storeVars

\* main.py lines 163-176: one iteration of the loop of
\* _process_daily_summaries, over the day before the clock; after the last
\* city line 138 empties daily_data
SummarizeCity ==
    /\ phase = "summaries"
    /\ cities_todo # << >>
    /\ cities_todo' = Tail(cities_todo)
    /\ CitySummaries("real", Head(cities_todo),
                     NowAt(clock) - Minutes(1440), NowAt(clock))
    /\ IF Tail(cities_todo) = << >>
       THEN /\ daily_data' = [c \in CITIES |-> << >>]
            /\ phase' = "loop"
       ELSE UNCHANGED <<daily_data, phase>>
    /\ UNCHANGED <<API_KEY, clock, all_city_data, processed_data,
                   fetch_errors>>
    /\ UNCHANGED <<alertVars, normVars, aggVars, genVars, concVars>>

-----------------------------------------------------------------------------
(* src/src/mock_data_generator.py: generate_mock_weather_data *)

\* the largest number of readings of a generated list
MaxReadings == 3

\* lines 33-40: city_temp_ranges, (min, max) in degrees
city_temp_ranges ==
    [Delhi |-> <<20, 45>>, Mumbai |-> <<24, 35>>, Chennai |-> <<24, 38>>,
     Bangalore |-> <<18, 32>>, Kolkata |-> <<22, 38>>,
     Hyderabad |-> <<20, 40>>]

\* line 45: city_temp_ranges.get(city, (15, 35))
temp_range(city) ==
    IF city \in DOMAIN city_temp_ranges THEN city_temp_ranges[city]
    ELSE <<15, 35>>

\* line 76: int(current_date.timestamp()), the datetime cut to the whole
\* second (kept in half seconds)
Timestamp(t) == (t \div 2) * 2

\* line 48: current_date.hour
HourOf(t) == (t \div Minutes(60)) % 24

\* line 49: (math.sin(hour * math.pi / 12 - math.pi / 2) + 1) / 2, in
\* thousandths, for the hours 0 to 23
daily_factor ==
    <<0, 17, 67, 146, 250, 371, 500, 629, 750, 854, 933, 983,
      1000, 983, 933, 854, 750, 629, 500, 371, 250, 146, 67, 17>>

base_temp_Unscaled(city, t) ==
    temp_range(city)[1] * 1000 +
        daily_factor[HourOf(t) + 1] * temp_range(city)[2]

\* lines 50-51: temp_range[0] + daily_factor * temp_range_size, in
\* thousandths of a degree
base_temp(city, t) ==
    temp_range(city)[1] * 1000 +
        daily_factor[HourOf(t) + 1] *
            (temp_range(city)[2] - temp_range(city)[1])

\* lines 54-55: the draws of random.uniform(-2, 2) kept, the two extremes
UniformDraws == {0 - 2000, 2000}

\* lines 54-55 and 69-70: temp and feels_like before rounding, and the pairs
\* (temp, round(temp, 2), round(feels_like, 2)) a reading can get
GeneratedTemps(city, t) ==
    UNION { { <<base_temp(city, t) + j1, rt, rf>> :
                rt \in Round2(base_temp(city, t) + j1, 1),
                rf \in Round2(base_temp(city, t) + j1 + j2, 1) } :
            j1 \in UniformDraws, j2 \in UniformDraws }

\* lines 20-27 and 57-65: the conditions random.choices can draw (two of the
\* six are kept): above 35 degrees the weight of Snow is 0
weather_conditions(temp) ==
    { [kind |-> "list", main |-> "Clear", description |-> "clear sky"] }
    \cup (IF temp > 35000 THEN {}
          ELSE { [kind |-> "list", main |-> "Snow",
                  description |-> "light snow"] })

\* lines 67-78: data_point
DataPoint(city, tf, weather, t) ==
    FeedReading(city, RawKeys,
                [mapping |-> TRUE, temp |-> Num(tf[2]),
                 feels_like |-> Num(tf[3])], weather, Timestamp(t))

\* lines 45-78: the data points one city can get at one tick
CityReadings(city, t) ==
    UNION { { DataPoint(city, tf, weather, t) :
                weather \in weather_conditions(tf[1]) } :
            tf \in GeneratedTemps(city, t) }

RECURSIVE TickReadings(_, _)
\* lines 43-80: for city in cities, the lists one tick can append
TickReadings(cities, t) ==
    IF cities = << >> THEN {<< >>}
    ELSE { <<reading>> \o rest :
             reading \in CityReadings(Head(cities), t),
             rest \in TickReadings(Tail(cities), t) }

LoopContinues_Exclusive(current, end) == current < end

\* line 42: while current_date <= end_date
LoopContinues(current, end) == current <= end

\* the number of ticks start + 10 * i that are <= end
TicksIn(start, end) ==
    IF start <= end THEN ((end - start) \div Minutes(10)) + 1 ELSE 0

\* the city lists, start times (00:07:00 and 12:07:00.5) and distances from
\* start to end the generator is called with
GenCityLists == {<< >>, <<"Delhi">>, <<"Pune">>, <<"Delhi", "Mumbai">>}
GenStarts == {Minutes(7), Minutes(727) + 1}
GenSpans(max) ==
    {0 - 1} \cup { s \in 0..(Minutes(10) * max - 1) :
                      s % Minutes(10) \in {0, Minutes(10) - 1} }

GenIdle ==
    /\ gen_cities = << >>
    /\ gen_start = 0
    /\ gen_end = 0
    /\ current_date = 0
    /\ gen_data = << >>
    /\ gpc = "idle"

\* lines 29-30: data = []; current_date = start_date
GenerateStart ==
    /\ gpc = "called"
    /\ gen_data' = << >>
    /\ current_date' = gen_start
    /\ gpc' = "loop"
    /\ UNCHANGED <<gen_cities, gen_start, gen_end>>
    /\ UNCHANGED <<alertVars, normVars, aggVars, storeVars, driverVars,
                 concVars>>

\* lines 42-82: one iteration of the while loop
GenerateTick ==
    /\ gpc = "loop"
    /\ LoopContinues(current_date, gen_end)
    /\ \E readings \in TickReadings(gen_cities, current_date) :
           gen_data' = gen_data \o readings
    /\ current_date' = current_date + Minutes(10)
    /\ UNCHANGED <<gen_cities, gen_start, gen_end, gpc>>
    /\ UNCHANGED <<alertVars, normVars, aggVars, storeVars, driverVars,
                 concVars>>

\* lines 42 and 84: the loop ends and data is returned
GenerateReturn ==
    /\ gpc = "loop"
    /\ ~LoopContinues(current_date, gen_end)
    /\ gpc' = "done"
    /\ UNCHANGED <<gen_cities, gen_start, gen_end, current_date, gen_data>>
    /\ UNCHANGED <<alertVars, normVars, aggVars, storeVars, driverVars,
                 concVars>>

-----------------------------------------------------------------------------
(* src/main.py: the mock run *)

\* main.py line 58: the readings of mock_data the loop goes through, each
\* with the city it names
MockItems(mock_data) ==
    [i \in 1..Len(mock_data) |-> <<mock_data[i].name, mock_data[i]>>]

\* main.py lines 54-56: generate_mock_weather_data has returned mock_data;
\* processed_data = []
MockLoopEntry ==
    /\ phase = "mock_generate"
    /\ gpc = "done"
    /\ all_city_data' = MockItems(gen_data)
    /\ processed_data' = << >>
    /\ phase' = "mock_loop"
    /\ UNCHANGED <<API_KEY, clock, daily_data, cities_todo, fetch_errors>>
    /\ UNCHANGED <<alertVars, normVars, aggVars, storeVars, genVars, concVars>>

\* main.py lines 58-65: one iteration of the loop over mock_data; the city
\* is processed['city']
MockReading ==
    /\ phase = "mock_loop"
    /\ all_city_data # << >>
    /\ \E rec \in process_weather_data(Head(all_city_data)[2],
                                       TEMPERATURE_UNIT, gen_end) :
           IF rec.kind = "record" THEN KeepCity("mock", rec.city, rec)
           ELSE SkipCity
    /\ UNCHANGED <<API_KEY, clock, cities_todo, fetch_errors>>
    /\ UNCHANGED <<normVars, aggVars, genVars, concVars>>

\* main.py lines 67-68 and 113-116: the loop is over, process_data returns
\* and _process_daily_summaries(start_date, end_date) starts
MockEndLoop ==
    /\ phase = "mock_loop"
    /\ all_city_data = << >>
    /\ phase' = "mock_summaries"
    /\ cities_todo' = CityList
    /\ UNCHANGED <<API_KEY, clock, all_city_data, processed_data, daily_data,
                   fetch_errors>>
    /\ UNCHANGED <<alertVars, normVars, aggVars, storeVars, genVars, concVars>>

\* main.py lines 163-176: one iteration of the loop of
\* _process_daily_summaries over the window of the run; after the last city
\* lines 118-121 make the visualizations (which only read the store)
MockSummarizeCity ==
    /\ phase = "mock_summaries"
    /\ cities_todo # << >>
    /\ cities_todo' = Tail(cities_todo)
    /\ CitySummaries("mock", Head(cities_todo), gen_start, gen_end)
    /\ phase' = IF Tail(cities_todo) = << >> THEN "mock_done" ELSE phase
    /\ UNCHANGED <<API_KEY, clock, all_city_data, processed_data, daily_data,
                   fetch_errors>>
    /\ UNCHANGED <<alertVars, normVars, aggVars, genVars, concVars>>

\* main.py lines 109-110 and 150-152: end_date = datetime.now(), at a whole
\* second or not; start_date = end_date - timedelta(minutes=duration) with a
\* duration of at least 5
MockEnds == {Minutes(17), Minutes(17) + 1}
MockDurations == {5, 9}

-----------------------------------------------------------------------------
(* src/src/database/db_operations.py: two managers on one database *)

\* DatabaseManager(database_url, data_source) takes any url with any tag:
\* the database both managers are given here
SharedDatabase == "mock"

RECURSIVE SelectSummaries(_, _, _, _, _)
\* db_operations.py lines 67-77: get_daily_summaries(city, start_date,
\* end_date) of the DatabaseOperations of src; DailySummary.date is a Date
\* column, so the two datetimes are bound as their dates
SelectSummaries(rows, city, start_date, end_date, src) ==
    IF rows = << >> THEN << >>
    ELSE LET row == Head(rows)
             rest == SelectSummaries(Tail(rows), city, start_date, end_date,
                                     src)
         IN IF /\ row.city = city
               /\ DateOf(start_date) <= row.date
               /\ row.date <= DateOf(end_date)
               /\ row.data_source = src
            THEN <<row>> \o rest
            ELSE rest

\* the datetimes a caller asks observations between; the records stored
\* carry the datetime 1
ObservationTimes == {0, 1, 2}

\* the datetimes a caller asks summaries between: days 1, 1, 2 and 3
SummaryTimes == {0, Minutes(600), Minutes(1440), Minutes(2880)}

\* a manager of either tag stores one processed record in the database
TagStoreObservation ==
    /\ stores < MaxStores
    /\ stores' = stores + 1
    /\ \E src \in DataSources, data \in StoreRecords, fails \in BOOLEAN :
           store_weather_data_at(SharedDatabase, src, data, fails)
    /\ UNCHANGED <<alertVars, normVars, aggVars, driverVars, genVars, concVars>>

\* a manager of either tag stores one batch of summaries in the database
TagStoreSummaryBatch ==
    /\ stores < MaxStores
    /\ stores' = stores + 1
    /\ \E src \in DataSources, batch \in Batches(MaxBatch), fails \in BOOLEAN :
           store_daily_summaries_at(SharedDatabase, src, batch, fails)
    /\ UNCHANGED <<alertVars, normVars, aggVars, driverVars, genVars, concVars>>

-----------------------------------------------------------------------------
(* Two threads in check_alert on one AlertSystem, for the same city *)

MaxWorkers == 2
Workers == 1 .. MaxWorkers

\* the readings the threads pass: one at or below the threshold, one above
ConcTemps == {Num(25000), Num(31000)}

\* the counter a city can have between two calls: never seen, or the value a
\* completed call left
StartCounts ==
    {<< >>} \cup {[c \in {city} |-> n] : city \in CITIES,
                                          n \in 0 .. CONSECUTIVE_ALERTS - 1}

Worker(pc, city, temp, tmp) ==
    [pc |-> pc, city |-> city, temp |-> temp, tmp |-> tmp]

ConcIdle ==
    /\ workers = [w \in Workers |-> Worker("idle", "", PyNone, 0)]
    /\ count0 = 0

\* alerts.py has no lock and check_alert takes none: a thread can be
\* preempted between any two of its statements, and inside line 8 between
\* the call of get and the store

\* what a statement of a thread leaves alone
WorkerFrame ==
    /\ UNCHANGED <<last, run, calls, count0>>
    /\ UNCHANGED <<normVars, aggVars, storeVars, driverVars, genVars>>

\* line 7: if temp > ALERT_THRESHOLD
Compare(w) ==
    /\ workers[w].pc = "called"
    /\ workers' = [workers EXCEPT ![w].pc =
                      IF Breaches(workers[w].temp) THEN "read" ELSE "clear"]
    /\ UNCHANGED <<alert_count, alerts>>
    /\ WorkerFrame

\* line 8, right-hand side: self.alert_count.get(city, 0)
ReadCount(w) ==
    /\ workers[w].pc = "read"
    /\ workers' = [workers EXCEPT
                      ![w].tmp = DictGet(alert_count, workers[w].city, 0),
                      ![w].pc = "write"]
    /\ UNCHANGED <<alert_count, alerts>>
    /\ WorkerFrame

\* line 8, the store: self.alert_count[city] = ... + 1
WriteCount(w) ==
    /\ workers[w].pc = "write"
    /\ alert_count' = DictSet(alert_count, workers[w].city, workers[w].tmp + 1)
    /\ workers' = [workers EXCEPT ![w].pc = "test"]
    /\ UNCHANGED alerts
    /\ WorkerFrame

\* line 9: if self.alert_count[city] >= CONSECUTIVE_ALERTS
TestCount(w) ==
    /\ workers[w].pc = "test"
    /\ workers' = [workers EXCEPT ![w].pc =
                      IF ReachesCount(alert_count[workers[w].city])
                      THEN "trigger" ELSE "done"]
    /\ UNCHANGED <<alert_count, alerts>>
    /\ WorkerFrame

\* line 10: self._trigger_alert(city, temp)
TriggerAlert(w) ==
    /\ workers[w].pc = "trigger"
    /\ alerts' = Append(alerts, [city |-> workers[w].city,
                                 temp |-> workers[w].temp.v])
    /\ workers' = [workers EXCEPT ![w].pc = "reset"]
    /\ UNCHANGED alert_count
    /\ WorkerFrame

\* line 11: self.alert_count[city] = 0
ResetCount(w) ==
    /\ workers[w].pc = "reset"
    /\ alert_count' = DictSet(alert_count, workers[w].city,
                              CountAfterTrigger(alert_count[workers[w].city]))
    /\ workers' = [workers EXCEPT ![w].pc = "done"]
    /\ UNCHANGED alerts
    /\ WorkerFrame

\* lines 12-13: else: self.alert_count[city] = 0
ClearCount(w) ==
    /\ workers[w].pc = "clear"
    /\ alert_count' =
           DictSet(alert_count, workers[w].city,
                   CountAfterNormal(DictGet(alert_count, workers[w].city, 0)))
    /\ workers' = [workers EXCEPT ![w].pc = "done"]
    /\ UNCHANGED alerts
    /\ WorkerFrame

\* check_alert run from its first statement to its last with no other thread
\* in between: the counter it leaves and the number of alerts it prints
SerialCall(cnt, temp) ==
    IF Breaches(temp)
    THEN IF ReachesCount(cnt + 1)
         THEN <<CountAfterTrigger(cnt + 1), 1>>
         ELSE <<cnt + 1, 0>>
    ELSE <<CountAfterNormal(cnt), 0>>

\* the calls of the threads made one after the other in the given order
RECURSIVE SerialRun(_, _, _)
SerialRun(order, cnt, fired) ==
    IF order = << >> THEN <<cnt, fired>>
    ELSE LET r == SerialCall(cnt, workers[Head(order)].temp)
         IN SerialRun(Tail(order), r[1], fired + r[2])

\* the orders in which the threads can be made to run one after the other
SerialOrders ==
    {order \in [1 .. MaxWorkers -> Workers] :
        \A i, j \in 1 .. MaxWorkers : order[i] = order[j] => i = j}

-----------------------------------------------------------------------------
(* Specifications *)

ThresholdNames == {"temperature", "consecutive_count"}
ThresholdValues == {1, 2, 3, 30, 35}

AlertInit ==
    /\ alert_count = << >>
    /\ alerts = << >>
    /\ last = NoCall
    /\ run = [c \in CITIES |-> 0]
    /\ calls = 0

NormIdle ==
    /\ raw = RawNone
    /\ unit = "celsius"
    /\ processed = NotCalled
    /\ npc = "idle"
    /\ conv = NoConv

AggIdle ==
    /\ data_points = << >>
    /\ summaries = AggNotCalled
    /\ apc = "idle"

LaterIdle == StoreIdle /\ DriverIdle /\ GenIdle /\ ConcIdle

Init == AlertInit /\ NormIdle /\ AggIdle /\ LaterIdle

Next ==
    \/ \E city \in CITIES, temp \in AlertTemps : check_alert(city, temp)
    \/ \E name \in ThresholdNames, value \in ThresholdValues :
           set_threshold(name, value)

Spec == Init /\ [][Next]_vars

\* the normalizer applied to one raw reading
NormInit ==
    /\ AlertInit
    /\ raw \in RawReadings
    /\ unit \in Units
    /\ processed = NotCalled
    /\ npc = "ready"
    /\ conv = NoConv
    /\ AggIdle
    /\ LaterIdle

NormNext ==
    \/ Normalize
    \/ \E name \in ConverterNames, k \in KelvinInputs : CallConverter(name, k)

NormSpec == NormInit /\ [][NormNext]_vars

\* the aggregator applied to one list of data points
AggInit ==
    /\ AlertInit
    /\ NormIdle
    /\ data_points \in PointLists(MaxPoints)
    /\ summaries = AggNotCalled
    /\ apc = "ready"
    /\ LaterIdle

AggNext == Summarize

AggSpec == AggInit /\ [][AggNext]_vars

\* the store under any calls of its two writers
StoreInit == AlertInit /\ NormIdle /\ AggIdle /\ LaterIdle

StoreNext == StoreObservation \/ StoreSummaryBatch

StoreSpec == StoreInit /\ [][StoreNext]_vars

\* the application started in real-time mode, with or without an API key
RealInit ==
    /\ AlertInit
    /\ ConcIdle
    /\ NormIdle
    /\ AggIdle
    /\ StoreIdle
    /\ GenIdle
    /\ API_KEY \in {"set", "missing"}
    /\ phase = "main"
    /\ clock = 0
    /\ all_city_data = << >>
    /\ processed_data = << >>
    /\ daily_data = [c \in CITIES |-> << >>]
    /\ cities_todo = << >>
    /\ fetch_errors = 0

RealNext ==
    \/ Startup
    \/ Fetch
    \/ ProcessCity
    \/ EndTick
    \/ SummarizeCity

RealSpec == RealInit /\ [][RealNext]_vars

\* one call of the generator; the loop, once entered, keeps running
GenInit ==
    /\ AlertInit
    /\ ConcIdle
    /\ NormIdle
    /\ AggIdle
    /\ StoreIdle
    /\ DriverIdle
    /\ gen_cities \in GenCityLists
    /\ gen_start \in GenStarts
    /\ \E span \in GenSpans(MaxReadings) :
           /\ Len(gen_cities) * TicksIn(0, span) <= MaxReadings
           /\ gen_end = gen_start + span
    /\ current_date = 0
    /\ gen_data = << >>
    /\ gpc = "called"

GenNext == GenerateStart \/ GenerateTick \/ GenerateReturn

GenSpec == GenInit /\ [][GenNext]_vars /\ WF_vars(GenNext)

\* the application run once with mock data, from the call of the generator
MockInit ==
    /\ AlertInit
    /\ ConcIdle
    /\ NormIdle
    /\ AggIdle
    /\ StoreIdle
    /\ API_KEY = "set"
    /\ phase = "mock_generate"
    /\ clock = 0
    /\ all_city_data = << >>
    /\ processed_data = << >>
    /\ daily_data = [c \in CITIES |-> << >>]
    /\ cities_todo = << >>
    /\ fetch_errors = 0
    /\ gen_cities = CityList
    /\ gen_end \in MockEnds
    /\ \E duration \in MockDurations : gen_start = gen_end - Minutes(duration)
    /\ current_date = 0
    /\ gen_data = << >>
    /\ gpc = "called"

MockNext ==
    \/ GenerateStart
    \/ GenerateTick
    \/ GenerateReturn
    \/ MockLoopEntry
    \/ MockReading
    \/ MockEndLoop
    \/ MockSummarizeCity

MockSpec == MockInit /\ [][MockNext]_vars

\* two threads calling check_alert for one city on one AlertSystem
ConcInit ==
    /\ alert_count \in StartCounts
    /\ alerts = << >>
    /\ last = NoCall
    /\ run = [c \in CITIES |-> 0]
    /\ calls = 0
    /\ NormIdle
    /\ AggIdle
    /\ StoreIdle
    /\ DriverIdle
    /\ GenIdle
    /\ \E city \in CITIES :
           /\ DOMAIN alert_count \subseteq {city}
           /\ count0 = DictGet(alert_count, city, 0)
           /\ workers \in {[w \in Workers |-> Worker("called", city, temps[w], 0)] :
                             temps \in [Workers -> ConcTemps]}

ConcNext ==
    \/ \E w \in Workers : Compare(w)
    \/ \E w \in Workers : ReadCount(w)
    \/ \E w \in Workers : WriteCount(w)
    \/ \E w \in Workers : TestCount(w)
    \/ \E w \in Workers : TriggerAlert(w)
    \/ \E w \in Workers : ResetCount(w)
    \/ \E w \in Workers : ClearCount(w)

ConcSpec == ConcInit /\ [][ConcNext]_vars

\* the store of one database under the writers of the two tags
TagInit == AlertInit /\ NormIdle /\ AggIdle /\ LaterIdle

TagNext == TagStoreObservation \/ TagStoreSummaryBatch

TagSpec == TagInit /\ [][TagNext]_vars

-----------------------------------------------------------------------------
(* Alert detector: properties *)

\* the last call was a completed check_alert with a breaching reading
LastBreached ==
    /\ last.op = "check_alert"
    /\ last.raised = "none"
    /\ IsNum(last.temp)
    /\ Breaches(last.temp)

\* the last call was a completed check_alert with a reading at or below the
\* threshold
LastNormal ==
    /\ last.op = "check_alert"
    /\ last.raised = "none"
    /\ IsNum(last.temp)
    /\ ~Breaches(last.temp)

\* C1: in a run of consecutive breaching readings of a city, each of the
\* first N-1 check_alert calls returns no event and the N-th call returns an
\* alert event carrying the city and the temperature of that reading.
C1_NthBreachReturnsEvent ==
    LastBreached =>
        /\ run[last.city] < CONSECUTIVE_ALERTS => last.ret = NoEvent
        /\ run[last.city] = CONSECUTIVE_ALERTS =>
               last.ret = [kind |-> "event", city |-> last.city,
                           temperature |-> last.temp.v]

\* C2: right after a check_alert call that fires an alert the city's counter
\* is 0, and a breaching reading of that city that comes next counts as
\* breach 1 and fires nothing (the required count being at least 2).
C2_CounterZeroAfterAlert ==
    /\ [](last.fired => DictGet(alert_count, last.city, -1) = 0)
    /\ [][(/\ last.fired
           /\ CONSECUTIVE_ALERTS >= 2
           /\ calls' = calls + 1
           /\ last'.op = "check_alert"
           /\ last'.city = last.city
           /\ last'.raised = "none"
           /\ Breaches(last'.temp))
          => (alert_count'[last.city] = 1 /\ ~last'.fired
              /\ alerts' = alerts)]_vars

\* C2 witness: an alert fired for the city and the breaching reading after
\* it was counted as breach 1 without firing
C2_Witness ==
    /\ LastBreached
    /\ ~last.fired
    /\ last.before = 0
    /\ run[last.city] = CONSECUTIVE_ALERTS + 1
    /\ alert_count[last.city] = 1
    /\ Len(alerts) = 1

\* C3: a check_alert call with a temperature at or below the threshold leaves
\* the city's counter at 0 whatever it was and fires nothing; an alert for a
\* city fires only at the end of at least N consecutive breaching readings
\* made after that.
C3_NormalReadingResets ==
    /\ LastNormal =>
           /\ alert_count[last.city] = 0
           /\ ~last.fired
           /\ last.ret = NoEvent
    /\ last.fired => run[last.city] >= CONSECUTIVE_ALERTS

\* C3 witness: a reading exactly at the threshold reset a counter that was 1
C3_Witness ==
    /\ LastNormal
    /\ last.temp.v = ThresholdMilli
    /\ last.before = 1
    /\ alert_count[last.city] = 0

\* C4: after set_threshold(name, value) the detector's threshold of that name
\* is the value given, and check_alert compares against it.
C4_SetThresholdOverrides ==
    last.op = "set_threshold" =>
        /\ last.raised = "none"
        /\ thresholds[last.name] = last.value

-----------------------------------------------------------------------------
(* Normalizer: properties *)

\* the raw reading is a dict holding the keys name, main and weather, with a
\* mapping under main
HasBlocks(data) ==
    /\ ~data.isNone
    /\ {"name", "main", "weather"} \subseteq data.keys
    /\ data.main.mapping

\* the raw reading lacks the city name, the condition list or the temperature
LacksRequired(data) ==
    \/ data.isNone
    \/ "name" \notin data.keys
    \/ "weather" \notin data.keys
    \/ "main" \notin data.keys
    \/ (data.main.mapping /\ data.main.temp = PyNone)

\* C5: process_weather_data returns None whenever the raw reading lacks the
\* city name, the condition list or the temperature (a main block without
\* temp included), and every record it returns has a temp and a dt.
C5_MissingFieldGivesNone ==
    npc = "done" =>
        /\ LacksRequired(raw) => processed.kind = "None"
        /\ processed.kind = "record" =>
               (processed.temp # PyNone /\ processed.dt # PyNone)

\* C6: process_weather_data never raises: whatever the input, the outcome is
\* a record or None.
C6_NeverRaises ==
    npc = "done" => processed.kind \in {"record", "None"}

\* C6 witness: an exception was raised inside the call (an empty weather
\* list) and the caller got None
C6_Witness ==
    /\ npc = "done"
    /\ HasBlocks(raw)
    /\ raw.weather.kind = "empty"
    /\ processed.kind = "None"
    /\ processed.exc = "IndexError"

\* the raw reading is complete but for its feels-like value
OnlyFeelsLikeAbsent(data) ==
    /\ HasBlocks(data)
    /\ IsNum(data.main.temp)
    /\ data.main.feels_like = PyNone
    /\ data.weather.kind = "list"
    /\ "dt" \in data.keys => IsNum(data.dt)

\* C7: a raw reading with a temperature and no feels-like value still gives
\* a record, whose feels_like is None and whose temp is the temperature in
\* the requested unit rounded to 2 decimals, for celsius and for fahrenheit.
C7_FeelsLikeOptional ==
    (npc = "done" /\ OnlyFeelsLikeAbsent(raw)) =>
        /\ processed.kind = "record"
        /\ processed.feels_like = PyNone
        /\ IsNum(processed.temp)
        /\ unit = "celsius" =>
               processed.temp.v \in Round2(raw.main.temp.v, 1)
        /\ unit = "fahrenheit" =>
               processed.temp.v \in Round2(9 * raw.main.temp.v + 160000, 5)

\* C7 witness: a fahrenheit record without feels_like, its temp converted
C7_Witness ==
    /\ npc = "done"
    /\ OnlyFeelsLikeAbsent(raw)
    /\ unit = "fahrenheit"
    /\ raw.main.temp = Num(31004)
    /\ processed.kind = "record"
    /\ processed.temp = Num(87810)
    /\ processed.feels_like = PyNone

\* k Kelvin in the unit u, rounded to 2 decimals
KelvinRounded(k, u) ==
    IF u = "fahrenheit"
    THEN Round2(9 * (k - 273150) + 160000, 5)
    ELSE Round2(k - 273150, 1)

\* C8: for a raw temperature of k Kelvin the record's temp is k - 273.15
\* rounded to 2 decimals under celsius and (k - 273.15) * 9/5 + 32 rounded to
\* 2 decimals under fahrenheit, and feels_like is converted by the same rule.
C8_KelvinConverted ==
    (npc = "done" /\ processed.kind = "record") =>
        /\ IsNum(raw.main.temp) =>
               processed.temp.v \in KelvinRounded(raw.main.temp.v, unit)
        /\ IsNum(raw.main.feels_like) =>
               processed.feels_like.v
                   \in KelvinRounded(raw.main.feels_like.v, unit)

\* C9: the module exposes kelvin_to_celsius and kelvin_to_fahrenheit, with
\* kelvin_to_celsius(k) = k - 273.15 and
\* kelvin_to_fahrenheit(k) = kelvin_to_celsius(k) * 9/5 + 32, unrounded.
C9_ConvertersExposed ==
    conv.name \in ConverterNames =>
        /\ conv.raised = "none"
        /\ IsNum(conv.result)
        /\ conv.name = "kelvin_to_celsius" =>
               conv.result.v = conv.k - 273150
        /\ conv.name = "kelvin_to_fahrenheit" =>
               5 * conv.result.v = 9 * (conv.k - 273150) + 160000

-----------------------------------------------------------------------------
(* Aggregator: properties *)

\* the non-null temperatures of the group a summary was computed from
GroupTemps(sm) == TempsOf(GroupOf(data_points, <<sm.date, sm.city>>))

\* r is x = n/d rounded to 2 decimals: a multiple of 10 thousandths at most
\* 5 thousandths away from x
IsRounded2(r, n, d) ==
    /\ r % 10 = 0
    /\ 2 * (r * d - n) <= 10 * d
    /\ 2 * (n - r * d) <= 10 * d

IndexOfKey(key) ==
    {j \in 1..Len(data_points) :
         <<data_points[j].date, data_points[j].city>> = key}

\* the keys present in the input
InputKeys ==
    {<<data_points[j].date, data_points[j].city>> : j \in 1..Len(data_points)}

\* the key has a non-null temperature and a non-null condition
UsableKey(key) ==
    /\ \E j \in IndexOfKey(key) : data_points[j].temp # PyNone
    /\ \E j \in IndexOfKey(key) : data_points[j].main # "None"

\* every point of the input is a WeatherData row
AllRows == \A j \in 1..Len(data_points) : data_points[j].kind = "row"

\* the positions of the result that hold the summary of the key
SummaryIndex(key) ==
    {i \in 1..Len(summaries.summaries) :
         <<summaries.summaries[i].date, summaries.summaries[i].city>> = key}

CondIndex(sm, c) ==
    {j \in IndexOfKey(<<sm.date, sm.city>>) : data_points[j].main = c}

\* the first input position of condition c in the summary's group
FirstIndex(sm, c) ==
    CHOOSE j \in CondIndex(sm, c) : \A k \in CondIndex(sm, c) : j <= k

\* the non-null conditions of the summary's group
GroupConditions(sm) ==
    {data_points[j].main : j \in IndexOfKey(<<sm.date, sm.city>>)} \ {"None"}

\* C12: the dominant_condition of a summary has the highest count among the
\* non-null conditions of its group, among the conditions with that count it
\* is the one met first in the input, and dominant_condition_count is its
\* count.
C12_DominantCondition ==
    (apc = "done" /\ summaries.kind = "list") =>
        \A i \in 1..Len(summaries.summaries) :
            LET sm == summaries.summaries[i]
                d == sm.dominant_condition
            IN /\ d \in GroupConditions(sm)
               /\ sm.dominant_condition_count = Cardinality(CondIndex(sm, d))
               /\ \A c \in GroupConditions(sm) :
                      /\ Cardinality(CondIndex(sm, c))
                             <= Cardinality(CondIndex(sm, d))
                      /\ (c # d /\ Cardinality(CondIndex(sm, c))
                                       = Cardinality(CondIndex(sm, d)))
                             => FirstIndex(sm, d) < FirstIndex(sm, c)

\* C12 witness: Rain and Clear tie in one group and Rain, met first, wins
C12_Witness ==
    /\ apc = "done"
    /\ Len(data_points) = 2
    /\ data_points[1].main = "Rain"
    /\ data_points[2].main = "Clear"
    /\ <<data_points[1].date, data_points[1].city>>
           = <<data_points[2].date, data_points[2].city>>
    /\ summaries.kind = "list"
    /\ summaries.summaries[1].dominant_condition = "Rain"
    /\ summaries.summaries[1].dominant_condition_count = 1

\* C13 as stated: total_observations counts only the observations of the
\* group whose temperature is non-null.
C13_TotalCountsNonNull ==
    (apc = "done" /\ summaries.kind = "list") =>
        \A i \in 1..Len(summaries.summaries) :
            summaries.summaries[i].total_observations
                = Len(GroupTemps(summaries.summaries[i]))

\* C13 amended: total_observations counts every observation of the group,
\* those with a null temperature included, so it is at least the number of
\* temperatures that entered avg, max and min.
C13_TotalCountsAll ==
    (apc = "done" /\ summaries.kind = "list") =>
        \A i \in 1..Len(summaries.summaries) :
            LET sm == summaries.summaries[i]
            IN /\ sm.total_observations
                      = Cardinality(IndexOfKey(<<sm.date, sm.city>>))
               /\ sm.total_observations >= Len(GroupTemps(sm))
               /\ sm.total_observations >= 1

\* C13 witness: a group of two observations, one without temperature, is
\* counted as 2
C13_Witness ==
    /\ apc = "done"
    /\ Len(data_points) = 2
    /\ data_points[1].temp = Num(25000)
    /\ data_points[2].temp = PyNone
    /\ summaries.kind = "list"
    /\ Len(summaries.summaries) = 1
    /\ summaries.summaries[1].total_observations = 2

\* C14: calculate_daily_summary never raises; an empty input gives no
\* summary, and a group of rows without a usable temperature or condition is
\* left out while the other groups of the call keep their summaries.
C14_NeverRaisesSkipsGroup ==
    apc = "done" =>
        /\ summaries.kind \in {"list", "None"}
        /\ data_points = << >> =>
               (summaries.kind = "None" /\ summaries.exc = "")
        /\ summaries.kind = "None" => summaries.summaries = << >>
        /\ AllRows =>
               /\ summaries.exc = ""
               /\ \A key \in InputKeys :
                      (SummaryIndex(key) # {}) = UsableKey(key)

\* C14 witness: of two groups the one without temperature was left out and
\* the other kept its summary
C14_Witness ==
    /\ apc = "done"
    /\ AllRows
    /\ Len(data_points) = 2
    /\ data_points[1].temp = PyNone
    /\ data_points[1].city = "Delhi"
    /\ data_points[2].city = "Mumbai"
    /\ summaries.kind = "list"
    /\ Len(summaries.summaries) = 1
    /\ summaries.summaries[1].city = "Mumbai"

-----------------------------------------------------------------------------
(* Store: properties *)

\* the positions of the rows of a database stored under a key
RowsOfKey(k) ==
    { i \in 1..Len(summary_table[k[3]]) :
        /\ summary_table[k[3]][i].date = k[1]
        /\ summary_table[k[3]][i].city = k[2]
        /\ summary_table[k[3]][i].data_source = k[3] }

\* C15: storing the same summaries a second time with store_daily_summaries
\* leaves exactly one stored record per (date, city) of the batch for the
\* data source, and the stored values after the second write are those
\* after the first.
C15_SameSummariesTwice ==
    [][ (/\ store_log'.op = "store_daily_summaries"
         /\ store_log'.repeat
         /\ ~store_log'.failed)
        => /\ summary_table' = summary_table
           /\ \A i \in 1..Len(store_log'.batch) :
                  Cardinality(
                      { j \in 1..Len(summary_table'[store_log'.source]) :
                          SameKey(summary_table'[store_log'.source][j],
                                  store_log'.batch[i],
                                  store_log'.source) }) = 1 ]_vars

\* a batch of two summaries of different dates was stored twice in a row
C15_Witness ==
    /\ store_log.op = "store_daily_summaries"
    /\ store_log.repeat
    /\ ~store_log.failed
    /\ Len(store_log.batch) = 2
    /\ store_log.batch[1].date # store_log.batch[2].date
    /\ Len(summary_table[store_log.source]) = 2

\* C16: after any sequence of store_daily_summaries calls the store holds at
\* most one DailySummary per (date, city, data_source), none under a key
\* never written, and the row of a written key holds the fields of the
\* latest write under that key.
C16_OneRowPerKeyLatestWins ==
    \A k \in StoreKeys :
        /\ Cardinality(RowsOfKey(k)) <= 1
        /\ latest[k] = NoRow => RowsOfKey(k) = {}
        /\ latest[k] # NoRow =>
               \E i \in RowsOfKey(k) : summary_table[k[3]][i] = latest[k]

\* the second call committed a batch holding one key twice with different
\* values, and the database holds one row
C16_Witness ==
    /\ stores = 2
    /\ store_log.op = "store_daily_summaries"
    /\ ~store_log.failed
    /\ Len(store_log.batch) = 2
    /\ store_log.batch[1].date = store_log.batch[2].date
    /\ store_log.batch[1].avg_temp # store_log.batch[2].avg_temp
    /\ Len(summary_table[store_log.source]) = 1
    /\ summary_table[store_log.source][1].avg_temp =
           store_log.batch[2].avg_temp

\* C17: a store call whose try block raised reports the failure to its
\* caller, as a raised exception or as a return value other than the None
\* of a successful call.
C17_FailureReported ==
    store_log.failed =>
        \/ store_log.raised # "none"
        \/ store_log.ret # "None"

-----------------------------------------------------------------------------
(* Real-time driver: properties *)

\* the loop of _process_real_data is at a city's item
AtCity == phase = "tick" /\ all_city_data # << >>

\* the step skips the city: nothing is stored, check_alert is not called, no
\* counter changes, and the loop goes on with the other cities
SkipsCity ==
    /\ weather_table' = weather_table
    /\ calls' = calls
    /\ alert_count' = alert_count
    /\ alerts' = alerts
    /\ phase' = "tick"
    /\ all_city_data' = Tail(all_city_data)

\* C18: in the real-time path, when the feed returned nothing for a city or
\* the city's reading lacks the city name, the condition list or the
\* temperature, the city is skipped on this tick: no observation is stored,
\* check_alert is not called, the counters are unchanged and the other
\* cities are processed.
C18_AbsentOrInvalidSkipped ==
    [][ (AtCity /\ LacksRequired(Head(all_city_data)[2])) => SkipsCity ]_vars

\* the part of C18 the driver keeps: a city whose data is None, or whose
\* reading the normalizer answers with None, is skipped
C18_RejectedReadingSkipped ==
    [][ (/\ AtCity
         /\ \/ ~Truthy(Head(all_city_data)[2])
            \/ \A rec \in process_weather_data(Head(all_city_data)[2],
                                               TEMPERATURE_UNIT, clock) :
                   rec.kind = "None")
        => SkipsCity ]_vars

\* C19: without an API key the application in real-time mode stops at
\* startup: it never enters the polling loop and no fetch error is printed.
C19_MissingKeyFatalAtStartup ==
    API_KEY = "missing" =>
        /\ phase \in {"main", "exit"}
        /\ clock = 0
        /\ fetch_errors = 0

-----------------------------------------------------------------------------
(* Mock data generator: properties *)

\* the readings are those of the ticks start, start + 10 minutes, ... in
\* this order (each stamped with the whole second of its tick), one per city
\* of the list in the order of the list
InTickOrder ==
    \A i \in 1..Len(gen_data) :
        /\ gen_data[i].dt =
               Num(Timestamp(gen_start +
                             Minutes(10) * ((i - 1) \div Len(gen_cities))))
        /\ gen_data[i].dt.v <= gen_end
        /\ gen_data[i].name = gen_cities[((i - 1) % Len(gen_cities)) + 1]

\* C20: generate_mock_weather_data(cities, start, end) terminates and
\* returns |cities| * (floor((end - start) in minutes / 10) + 1) readings
\* when start <= end, one per city for every tick start + 10 * i <= end in
\* tick order, and no reading when start > end.
C20_OneReadingPerCityPerTick ==
    /\ <>(gpc = "done")
    /\ [](gpc = "done" =>
            /\ gen_start <= gen_end =>
                   Len(gen_data) =
                       Len(gen_cities) *
                           (((gen_end - gen_start) \div Minutes(10)) + 1)
            /\ gen_start > gen_end => gen_data = << >>
            /\ InTickOrder)

\* one city, end exactly two steps after start: three readings returned,
\* the last one at end
C20_Witness ==
    /\ gpc = "done"
    /\ Len(gen_cities) = 1
    /\ gen_end = gen_start + Minutes(20)
    /\ Len(gen_data) = 3
    /\ gen_data[3].dt = Num(Timestamp(gen_end))

\* C21: every temperature and every feels-like value of a generated reading
\* lies within [min - 4, max + 4] of the band of its city, the default band
\* (15, 35) for a city absent from the band table.
C21_TempsWithinBand ==
    \A i \in 1..Len(gen_data) :
        LET band == IF gen_data[i].name \in DOMAIN city_temp_ranges
                    THEN city_temp_ranges[gen_data[i].name]
                    ELSE <<15, 35>>
        IN /\ band[1] * 1000 - 4000 <= gen_data[i].main.temp.v
           /\ gen_data[i].main.temp.v <= band[2] * 1000 + 4000
           /\ band[1] * 1000 - 4000 <= gen_data[i].main.feels_like.v
           /\ gen_data[i].main.feels_like.v <= band[2] * 1000 + 4000

\* the list returned holds a reading of a city absent from the band table
\* whose feels-like value is the lowest allowed, and one of Delhi at noon
\* would hold the highest
C21_Witness ==
    /\ gpc = "done"
    /\ \E i \in 1..Len(gen_data) :
           /\ gen_data[i].name = "Pune"
           /\ gen_data[i].main.temp = Num(13000)
           /\ gen_data[i].main.feels_like = Num(11000)

-----------------------------------------------------------------------------
(* Mock run: properties *)

\* C22: the record the driver keeps after store_weather_data, in
\* processed_data and in the daily list of its city, is the record
\* process_weather_data returned for the reading, with the same fields and
\* the same values.
C22_RecordUnchangedByPipeline ==
    [][ (/\ phase = "mock_loop"
         /\ all_city_data # << >>
         /\ Len(processed_data') = Len(processed_data) + 1)
        => LET rec == processed_data'[Len(processed_data')]
               kept == daily_data'[rec.city]
           IN /\ rec \in process_weather_data(Head(all_city_data)[2],
                                              TEMPERATURE_UNIT, gen_end)
              /\ kept[Len(kept)] = rec ]_vars

RECURSIVE SumTotals(_, _)
\* the total_observations of the summaries of a city among rows, added up
SumTotals(rows, city) ==
    IF rows = << >> THEN 0
    ELSE (IF Head(rows).city = city THEN Head(rows).total_observations ELSE 0)
         + SumTotals(Tail(rows), city)

\* the number of readings the generator returned for a city
GeneratedFor(city) ==
    Cardinality({ i \in 1..Len(gen_data) : gen_data[i].name = city })

\* the rows of the mock store the window query of the run returns for a city
WindowRows(city) ==
    SelectRows(weather_table["mock"], city, gen_start, gen_end, "mock")

\* C28: in a mock run the summaries are computed only after every generated
\* reading has been processed, every observation stored in the run is
\* returned by the window query of its city, and once the run is over the
\* total_observations of the summaries of a city add up to at least the
\* number of readings generated for the city.
C28_WindowCoversRun ==
    /\ phase \in {"mock_summaries", "mock_done"} =>
           /\ all_city_data = << >>
           /\ \A i \in 1..Len(weather_table["mock"]) :
                  \E j \in 1..Len(WindowRows(weather_table["mock"][i].city)) :
                      WindowRows(weather_table["mock"][i].city)[j] =
                          weather_table["mock"][i]
    /\ phase = "mock_done" =>
           \A city \in CITIES :
               SumTotals(summary_table["mock"], city) >= GeneratedFor(city)

\* the part of C28 about the window alone: every observation stored in the
\* run lies inside [start_date, end_date]
C28_StoredInsideWindow ==
    \A i \in 1..Len(weather_table["mock"]) :
        /\ gen_start <= weather_table["mock"][i].dt.v
        /\ weather_table["mock"][i].dt.v <= gen_end

-----------------------------------------------------------------------------
(* Alert detector under two threads: properties *)

AllDone == \A w \in Workers : workers[w].pc = "done"

WorkerCity == workers[1].city

-----------------------------------------------------------------------------
(* Alert detector: the counters *)

\* the counter of a city, a city never seen counting as 0
CounterOf(city) ==
    IF city \in DOMAIN alert_count THEN alert_count[city] ELSE 0

\* C24: after every completed check_alert call the counter c of every city
\* satisfies 0 <= c < CONSECUTIVE_ALERTS, a city never seen counting as 0, the
\* required count being at least 1.
C24_CounterBelowRequired ==
    /\ CONSECUTIVE_ALERTS >= 1
    /\ \A city \in CITIES :
           /\ 0 <= CounterOf(city)
           /\ CounterOf(city) < CONSECUTIVE_ALERTS

\* C24 witness: a breaching reading that came after an alert of the city left
\* its counter at the required count less one, the other city never seen
C24_Witness ==
    /\ LastBreached
    /\ Len(alerts) >= 1
    /\ alert_count[last.city] = CONSECUTIVE_ALERTS - 1
    /\ \E city \in CITIES : city \notin DOMAIN alert_count

\* C25: a check_alert call fires an alert exactly when it completes N
\* consecutive breaching readings of the city since the last alert or the
\* last non-breaching reading, that is on readings N, 2N, ... of a run of
\* breaching readings; the counter holds the breaches counted since then;
\* nothing else adds an alert; an uninterrupted run of m breaching readings
\* has fired floor(m / N) alerts.
C25_AlertsOnEveryNthBreach ==
    /\ [](/\ LastBreached =>
                (last.fired <=> run[last.city] % CONSECUTIVE_ALERTS = 0)
          /\ (last.op = "check_alert" /\ ~LastBreached) => ~last.fired
          /\ \A city \in CITIES :
                 CounterOf(city) = run[city] % CONSECUTIVE_ALERTS
          /\ \A city \in CITIES :
                 run[city] = calls =>
                     Len(alerts) = calls \div CONSECUTIVE_ALERTS)
    /\ [][alerts' # alerts =>
              /\ last'.fired
              /\ alerts' = Append(alerts, [city |-> last'.city,
                                           temp |-> last'.temp.v])]_vars

\* C25 witness: the second alert of an uninterrupted run of 2N breaching
\* readings of one city
C25_Witness ==
    /\ LastBreached
    /\ last.fired
    /\ calls = 2 * CONSECUTIVE_ALERTS
    /\ run[last.city] = calls
    /\ Len(alerts) = 2

\* C26: check_alert(city, temp) changes the counter of that city only: every
\* other city's counter, or its absence, is what it was before the call.
C26_OtherCountersUnchanged ==
    [][(calls' = calls + 1 /\ last'.op = "check_alert") =>
          \A city \in CITIES \ {last'.city} :
              /\ city \in DOMAIN alert_count' <=> city \in DOMAIN alert_count
              /\ city \in DOMAIN alert_count =>
                     alert_count'[city] = alert_count[city]]_vars

\* C26 witness: a reading of Mumbai reset Mumbai's counter from 1 to 0 while
\* Delhi's counter stayed at 1
C26_Witness ==
    /\ LastNormal
    /\ last.city = "Mumbai"
    /\ last.before = 1
    /\ "Delhi" \in DOMAIN alert_count
    /\ alert_count["Delhi"] = 1
    /\ alert_count["Mumbai"] = 0


-----------------------------------------------------------------------------
(* Store: isolation of the tags *)

\* the rows of a table that carry another tag than src, in order
OtherRows(rows, src) == SelectSeq(rows, LAMBDA row : row.data_source # src)

\* every row of the table after the call was there before it, at the same
\* place, or carries the tag src
NewRowsTagged(before, after, src) ==
    \A i \in 1..Len(after) :
        \/ i <= Len(before) /\ after[i] = before[i]
        \/ after[i].data_source = src

SharedWeather == weather_table[SharedDatabase]
SharedSummaries == summary_table[SharedDatabase]

\* C27: records are isolated by source tag. Every observation and summary a
\* DatabaseOperations writes carries the tag of its manager, and the call
\* leaves every row of another tag as it was, neither overwritten nor
\* deleted; get_weather_data returns only rows of the manager's tag, of the
\* city asked and with start <= dt <= end, and get_daily_summaries only rows
\* of that tag and city dated from the day of start to the day of end.
C27_IsolatedByTag ==
    /\ [](\A src \in DataSources, city \in CITIES :
            /\ \A start_date \in ObservationTimes, end_date \in ObservationTimes :
                   LET found == SelectRows(SharedWeather, city, start_date,
                                           end_date, src)
                   IN \A i \in 1..Len(found) :
                          /\ found[i].data_source = src
                          /\ found[i].city = city
                          /\ start_date <= found[i].dt.v
                          /\ found[i].dt.v <= end_date
                          /\ \E j \in 1..Len(SharedWeather) :
                                 SharedWeather[j] = found[i]
            /\ \A start_date \in SummaryTimes, end_date \in SummaryTimes :
                   LET found == SelectSummaries(SharedSummaries, city,
                                                start_date, end_date, src)
                   IN \A i \in 1..Len(found) :
                          /\ found[i].data_source = src
                          /\ found[i].city = city
                          /\ DateOf(start_date) <= found[i].date
                          /\ found[i].date <= DateOf(end_date)
                          /\ \E j \in 1..Len(SharedSummaries) :
                                 SharedSummaries[j] = found[i])
    /\ [][stores' = stores + 1 =>
              /\ NewRowsTagged(SharedWeather, SharedWeather',
                               store_log'.source)
              /\ NewRowsTagged(SharedSummaries, SharedSummaries',
                               store_log'.source)
              /\ OtherRows(SharedWeather', store_log'.source) =
                     OtherRows(SharedWeather, store_log'.source)
              /\ OtherRows(SharedSummaries', store_log'.source) =
                     OtherRows(SharedSummaries, store_log'.source)]_vars

\* C27 witness: the database holds a summary of one date and city under each
\* tag, the second written by an upsert that left the first as it was, and
\* the query of each manager returns its own row alone
C27_Witness ==
    /\ store_log.op = "store_daily_summaries"
    /\ ~store_log.failed
    /\ store_log.source = "real"
    /\ Len(SharedSummaries) = 2
    /\ SharedSummaries[1].data_source = "mock"
    /\ SharedSummaries[2].data_source = "real"
    /\ SharedSummaries[1].date = SharedSummaries[2].date
    /\ SharedSummaries[1].avg_temp # SharedSummaries[2].avg_temp
    /\ SelectSummaries(SharedSummaries, "Delhi", 0, Minutes(600), "mock") =
           <<SharedSummaries[1]>>
    /\ SelectSummaries(SharedSummaries, "Delhi", 0, Minutes(600), "real") =
           <<SharedSummaries[2]>>


====
